---- MODULE Spec2Model ----
(***************************************************************************)
(* A model of inventory_system.py: a caller-owned mapping from item name   *)
(* to quantity (a Python dict, which iterates in insertion order), the     *)
(* two mutators add_item and remove_item, the queries get_qty and          *)
(* check_low_items, and the JSON persistence pair load_data / save_data.   *)
(*                                                                         *)
(* A Python str is a sequence of one-character strings.  A Python object   *)
(* handed to a function is a tagged record [t |-> type name, v |-> value]. *)
(* The text of the inventory file is a sequence of characters; the JSON    *)
(* encoder and decoder work on that text character by character.           *)
(***************************************************************************)
EXTENDS Integers, Sequences, FiniteSets, TLC

VARIABLES
    stock,   \* the caller's mapping: a sequence of [k, v] entries in dict order
    file,    \* what the path "inventory.json" holds on disk
    last     \* the latest call: its name, arguments, result, exception, log level

vars == <<stock, file, last>>

---------------------------------------------------------------------------
(* Bounds of the model *)

\* Stored quantities are kept within -MaxQty .. MaxQty
MaxQty == 2

\* A failed write leaves at most this many characters of the new text on disk
MaxPartial == 1

---------------------------------------------------------------------------
(* Python values *)

StrV(s) == [t |-> "str", v |-> s]

IntV(n) == [t |-> "int", v |-> n]

\* bool is a subclass of int: True is 1 and False is 0 in arithmetic
BoolV(n) == [t |-> "bool", v |-> n]

NoneV == [t |-> "NoneType", v |-> 0]

DictV(d) == [t |-> "dict", v |-> d]

ListV(l) == [t |-> "list", v |-> l]

\* isinstance(x, str)
IsStr(x) == x.t = "str"

\* isinstance(x, int): true of int and of its subclass bool
IsInt(x) == x.t \in {"int", "bool"}

\* "not item" for a str: the empty string is falsy
Falsy(x) == x.v = <<>>

---------------------------------------------------------------------------
(* dict operations on a sequence of [k, v] entries *)

\* the keys of d, in iteration order
Keys(d) == [i \in 1..Len(d) |-> d[i].k]

KeySet(d) == {d[i].k : i \in 1..Len(d)}

\* key in d
Has(d, key) == \E i \in 1..Len(d) : d[i].k = key

IndexOf(d, key) == CHOOSE i \in 1..Len(d) : d[i].k = key

\* d.get(key, default)
DictGet(d, key, default) == IF Has(d, key) THEN d[IndexOf(d, key)].v ELSE default

\* d[key] = val: an existing key keeps its place, a new key goes last
DictSet(d, key, val) ==
    IF Has(d, key)
    THEN [d EXCEPT ![IndexOf(d, key)].v = val]
    ELSE Append(d, [k |-> key, v |-> val])

\* del d[key]
DictDel(d, key) ==
    LET i == IndexOf(d, key)
    IN  SubSeq(d, 1, i - 1) \o SubSeq(d, i + 1, Len(d))

---------------------------------------------------------------------------
(* The characters of JSON text *)

Quote == "\""

NL == "\n"

Space == " "

Digits == <<"0", "1", "2", "3", "4", "5", "6", "7", "8", "9">>

IsDigit(c) == \E i \in 1..10 : Digits[i] = c

DigitVal(c) == (CHOOSE i \in 1..10 : Digits[i] = c) - 1

\* json.decoder.WHITESPACE: " \t\n\r"
IsWs(c) == c \in {" ", "\t", "\n", "\r"}

---------------------------------------------------------------------------
(* json.dump(stock, f, indent=4): the text written for a dict of int values *)

\* the indent argument of json.dump
Indent == 4

RECURSIVE NatStr(_)
\* str(n) for n >= 0
NatStr(n) ==
    IF n < 10 THEN <<Digits[n + 1]>>
    ELSE NatStr(n \div 10) \o <<Digits[(n % 10) + 1]>>

\* str(n): a minus sign before the digits of a negative number
IntStr(n) == IF n < 0 THEN <<"-">> \o NatStr(-n) ELSE NatStr(n)

\* a key as a JSON string (the keys of the model need no escapes)
EncodeStr(s) == <<Quote>> \o s \o <<Quote>>

NewlineIndent == <<NL>> \o [i \in 1..Indent |-> Space]

\* one "key": value member on its own indented line
EncodeMember(e) == NewlineIndent \o EncodeStr(e.k) \o <<":", Space>> \o IntStr(e.v)

RECURSIVE EncodeMembers(_, _)
EncodeMembers(d, i) ==
    IF i > Len(d) THEN <<>>
    ELSE (IF i > 1 THEN <<",">> ELSE <<>>) \o EncodeMember(d[i]) \o EncodeMembers(d, i + 1)

\* json.dumps(d, indent=4): "{}" for the empty dict
json_dumps(d) ==
    IF Len(d) = 0 THEN <<"{", "}">>
    ELSE <<"{">> \o EncodeMembers(d, 1) \o <<NL, "}">>

---------------------------------------------------------------------------
(* json.loads: the decoder, on objects, arrays, strings without escapes,   *)
(* integers and the literals null, true and false.  A result is            *)
(* [ok, val, end]: end is the position of the first character not read.    *)

Fail == [ok |-> FALSE, val |-> NoneV, end |-> 0]

Ok(value, e) == [ok |-> TRUE, val |-> value, end |-> e]

RECURSIVE SkipWs(_, _)
SkipWs(s, i) == IF i <= Len(s) /\ IsWs(s[i]) THEN SkipWs(s, i + 1) ELSE i

\* whether text s holds the characters of w from position i on
Matches(s, i, w) ==
    /\ i + Len(w) - 1 <= Len(s)
    /\ \A j \in 1..Len(w) : s[i + j - 1] = w[j]

RECURSIVE StrEnd(_, _)
\* the position of the closing quote of the string whose body starts at i,
\* 0 when the text ends first or a control character is met
StrEnd(s, i) ==
    IF i > Len(s) THEN 0
    ELSE IF s[i] = Quote THEN i
    ELSE IF s[i] \in {"\n", "\t", "\r"} THEN 0
    ELSE StrEnd(s, i + 1)

\* py_scanstring, called with s[i] the opening quote
ScanString(s, i) ==
    LET e == StrEnd(s, i + 1)
    IN  IF e = 0 THEN Fail ELSE Ok(StrV(SubSeq(s, i + 1, e - 1)), e + 1)

RECURSIVE DigitsEnd(_, _)
DigitsEnd(s, i) == IF i <= Len(s) /\ IsDigit(s[i]) THEN DigitsEnd(s, i + 1) ELSE i

RECURSIVE DigitsVal(_, _, _)
\* int() of the digits s[i .. e-1]
DigitsVal(s, i, e) ==
    IF e <= i THEN 0 ELSE DigitsVal(s, i, e - 1) * 10 + DigitVal(s[e - 1])

\* NUMBER_RE: -?(0|[1-9][0-9]*), the longest match from position i
ScanNumber(s, i) ==
    LET neg == i <= Len(s) /\ s[i] = "-"
        d   == IF neg THEN i + 1 ELSE i
        e   == IF d <= Len(s) /\ s[d] = "0" THEN d + 1 ELSE DigitsEnd(s, d)
        n   == DigitsVal(s, d, e)
    IN  IF e = d THEN Fail ELSE Ok(IntV(IF neg THEN -n ELSE n), e)

RECURSIVE ScanOnce(_, _), ObjectMembers(_, _, _), ArrayItems(_, _, _)

\* JSONObject, called with i just past the "{"
JSONObject(s, i) ==
    LET j == SkipWs(s, i)
    IN  IF j > Len(s) THEN Fail
        ELSE IF s[j] = "}" THEN Ok(DictV(<<>>), j + 1)
        ELSE IF s[j] # Quote THEN Fail
        ELSE ObjectMembers(s, j, <<>>)

\* the members loop of JSONObject, s[j] the opening quote of the next key;
\* a repeated key keeps its first place and takes the last value
ObjectMembers(s, j, acc) ==
    LET key == ScanString(s, j)
        c   == SkipWs(s, key.end)
        val == ScanOnce(s, SkipWs(s, c + 1))
        m   == SkipWs(s, val.end)
        n   == SkipWs(s, m + 1)
        d   == DictSet(acc, key.val.v, val.val)
    IN  IF ~key.ok THEN Fail
        ELSE IF c > Len(s) \/ s[c] # ":" THEN Fail
        ELSE IF ~val.ok THEN Fail
        ELSE IF m > Len(s) THEN Fail
        ELSE IF s[m] = "}" THEN Ok(DictV(d), m + 1)
        ELSE IF s[m] # "," THEN Fail
        ELSE IF n > Len(s) \/ s[n] # Quote THEN Fail
        ELSE ObjectMembers(s, n, d)

\* JSONArray, called with i just past the "["
JSONArray(s, i) ==
    LET j == SkipWs(s, i)
    IN  IF j > Len(s) THEN Fail
        ELSE IF s[j] = "]" THEN Ok(ListV(<<>>), j + 1)
        ELSE ArrayItems(s, j, <<>>)

ArrayItems(s, j, acc) ==
    LET val == ScanOnce(s, j)
        m   == SkipWs(s, val.end)
        l   == Append(acc, val.val)
    IN  IF ~val.ok THEN Fail
        ELSE IF m > Len(s) THEN Fail
        ELSE IF s[m] = "]" THEN Ok(ListV(l), m + 1)
        ELSE IF s[m] # "," THEN Fail
        ELSE ArrayItems(s, SkipWs(s, m + 1), l)

\* scanner.py_make_scanner: one JSON value starting exactly at position i
ScanOnce(s, i) ==
    IF i > Len(s) THEN Fail
    ELSE IF s[i] = Quote THEN ScanString(s, i)
    ELSE IF s[i] = "{" THEN JSONObject(s, i + 1)
    ELSE IF s[i] = "[" THEN JSONArray(s, i + 1)
    ELSE IF Matches(s, i, <<"n", "u", "l", "l">>) THEN Ok(NoneV, i + 4)
    ELSE IF Matches(s, i, <<"t", "r", "u", "e">>) THEN Ok(BoolV(1), i + 4)
    ELSE IF Matches(s, i, <<"f", "a", "l", "s", "e">>) THEN Ok(BoolV(0), i + 5)
    ELSE ScanNumber(s, i)

\* JSONDecoder.decode: one value between optional whitespace, nothing after it;
\* ok = FALSE stands for json.JSONDecodeError
json_loads(s) ==
    LET r == ScanOnce(s, SkipWs(s, 1))
    IN  IF ~r.ok THEN Fail
        ELSE IF SkipWs(s, r.end) # Len(s) + 1 THEN Fail
        ELSE r

---------------------------------------------------------------------------
(* The inventory file *)

\* no file at the path: open(file, "r") raises FileNotFoundError
Absent == [kind |-> "absent", text |-> <<>>]

\* the path cannot be opened (a directory, no permission): open raises an
\* OSError that is not FileNotFoundError
Denied == [kind |-> "denied", text |-> <<>>]

Text(s) == [kind |-> "text", text |-> s]

\* a byte that is not valid UTF-8: reading the file raises UnicodeDecodeError
BadByte == "<0xff>"

HasBadByte(s) == \E i \in 1..Len(s) : s[i] = BadByte

\* {"b":17, "a":-1}
OldInventory ==
    <<"{", Quote, "b", Quote, ":", "1", "7", ",", Space, Quote, "a", Quote, ":", "-", "1", "}">>

\* "x": valid JSON that is not an object
NotAnObject == <<Quote, "x", Quote>>

\* {"a : a document cut short
CutShort == <<"{", Quote, "a", Quote>>

\* what the path may hold before the program runs
InitFiles ==
    { Absent,
      Denied,
      Text(<<>>),
      Text(<<BadByte>>),
      Text(NotAnObject),
      Text(<<"[", "1", "]">>),
      Text(CutShort),
      Text(OldInventory) }

---------------------------------------------------------------------------
(* The arguments the caller passes *)

Items == {StrV(<<"a">>), StrV(<<"b", "c">>), StrV(<<>>), IntV(123)}

Qtys == {IntV(-1), IntV(0), IntV(1), IntV(2), BoolV(1), StrV(<<"t", "e", "n">>)}

\* the default of check_low_items' threshold parameter
DefaultThreshold == 5

Thresholds == {0, 2, DefaultThreshold}

InRange(n) == -MaxQty <= n /\ n <= MaxQty

\* the record of a call
Call(op, item, qty, threshold, ret, raised, log) ==
    [op |-> op, item |-> item, qty |-> qty, threshold |-> threshold,
     ret |-> ret, raised |-> raised, log |-> log]

---------------------------------------------------------------------------
(* add_item *)

\* a check that lets the empty name through
ValidItem_AllowEmpty(item) == IsStr(item)

\* the name check shared by add_item and remove_item:
\* isinstance(item, str) and item is not empty
ValidItem(item) == IsStr(item) /\ ~Falsy(item)

\* isinstance(qty, int)
ValidQty(qty) == IsInt(qty)

\* an add that stores qty instead of adding it to what is there
AddTotal_Overwrite(d, item, qty) == qty.v

\* stock.get(item, 0) + qty
AddTotal(d, item, qty) == DictGet(d, item.v, 0) + qty.v

\* the mapping after add_item(d, item, qty)
AddResult(d, item, qty) ==
    IF ~ValidItem(item) THEN d
    ELSE IF ~ValidQty(qty) THEN d
    ELSE DictSet(d, item.v, AddTotal(d, item, qty))

add_item(item, qty) ==
    /\ ValidItem(item) /\ ValidQty(qty) => InRange(AddTotal(stock, item, qty))
    /\ stock' = AddResult(stock, item, qty)
    /\ last' = Call("add_item", item, qty, NoneV, NoneV, "none",
                    IF ValidItem(item) /\ ValidQty(qty) THEN "info" ELSE "error")
    /\ UNCHANGED file

---------------------------------------------------------------------------
(* remove_item *)

\* a removal that deletes only below zero
Subtract_KeepZero(d, item, qty) ==
    LET left == DictGet(d, item.v, 0) - qty.v
    IN  IF left < 0 THEN DictDel(d, item.v) ELSE DictSet(d, item.v, left)

\* a removal that deletes only at exactly zero
Subtract_OnlyZero(d, item, qty) ==
    LET left == DictGet(d, item.v, 0) - qty.v
    IN  IF left = 0 THEN DictDel(d, item.v) ELSE DictSet(d, item.v, left)

\* stock[item] -= qty, then del stock[item] when the result is <= 0
Subtract(d, item, qty) ==
    LET left == DictGet(d, item.v, 0) - qty.v
    IN  IF left <= 0 THEN DictDel(d, item.v) ELSE DictSet(d, item.v, left)

\* a removal that reads an absent item as 0 instead of failing
RemoveResult_NoKeyError(d, item, qty) ==
    IF ~ValidItem(item) THEN d
    ELSE IF ~ValidQty(qty) THEN d
    ELSE IF ~Has(d, item.v)
         THEN (IF 0 - qty.v <= 0 THEN d ELSE DictSet(d, item.v, 0 - qty.v))
    ELSE Subtract(d, item, qty)

\* the mapping after remove_item(d, item, qty); reading d[item] of an absent
\* item raises KeyError before anything is stored, and the handler only logs
RemoveResult(d, item, qty) ==
    IF ~ValidItem(item) THEN d
    ELSE IF ~ValidQty(qty) THEN d
    ELSE IF ~Has(d, item.v) THEN d
    ELSE Subtract(d, item, qty)

remove_item(item, qty) ==
    /\ ValidItem(item) /\ ValidQty(qty) /\ Has(stock, item.v)
          => InRange(DictGet(stock, item.v, 0) - qty.v)
    /\ stock' = RemoveResult(stock, item, qty)
    /\ last' = Call("remove_item", item, qty, NoneV, NoneV, "none",
                    IF ~(ValidItem(item) /\ ValidQty(qty)) THEN "error"
                    ELSE IF ~Has(stock, item.v) THEN "warning"
                    ELSE "info")
    /\ UNCHANGED file

---------------------------------------------------------------------------
(* get_qty and check_low_items *)

\* stock.get(item, 0): every key is a str, so no other object is a key
GetQty(d, item) == IF IsStr(item) THEN DictGet(d, item.v, 0) ELSE 0

get_qty(item) ==
    /\ last' = Call("get_qty", item, NoneV, NoneV, GetQty(stock, item), "none", "none")
    /\ UNCHANGED <<stock, file>>

\* a comparison that also reports an item exactly at the threshold
IsLow_Inclusive(qty, threshold) == qty <= threshold

\* qty < threshold
IsLow(qty, threshold) == qty < threshold

RECURSIVE LowFrom(_, _, _)
\* the loop over stock.items() from entry i on
LowFrom(d, i, threshold) ==
    IF i > Len(d) THEN <<>>
    ELSE (IF IsLow(d[i].v, threshold) THEN <<d[i].k>> ELSE <<>>)
         \o LowFrom(d, i + 1, threshold)

LowItems(d, threshold) == LowFrom(d, 1, threshold)

check_low_items(threshold) ==
    /\ last' = Call("check_low_items", NoneV, NoneV, threshold,
                    LowItems(stock, threshold), "none", "none")
    /\ UNCHANGED <<stock, file>>

---------------------------------------------------------------------------
(* load_data *)

\* the exception load_data lets through, "none" when it returns
LoadRaises(f) ==
    IF f.kind = "denied" THEN "PermissionError"
    ELSE IF f.kind = "text" /\ HasBadByte(f.text) THEN "UnicodeDecodeError"
    ELSE "none"

\* a load that returns whatever document was decoded
LoadChecked_NoTypeCheck(r) == IF ~r.ok THEN DictV(<<>>) ELSE r.val

\* what load_data does with the decoded document: {} unless it is a dict
LoadChecked(r) ==
    IF ~r.ok THEN DictV(<<>>)
    ELSE IF r.val.t # "dict" THEN DictV(<<>>)
    ELSE r.val

\* the value load_data returns when it returns
LoadResult(f) ==
    IF f.kind = "absent" THEN DictV(<<>>) ELSE LoadChecked(json_loads(f.text))

LoadLog(f) ==
    IF f.kind = "absent" THEN "warning"
    ELSE IF ~json_loads(f.text).ok THEN "error"
    ELSE IF json_loads(f.text).val.t # "dict" THEN "error"
    ELSE "none"

load_data ==
    /\ last' = IF LoadRaises(file) # "none"
               THEN Call("load_data", NoneV, NoneV, NoneV, NoneV, LoadRaises(file), "none")
               ELSE Call("load_data", NoneV, NoneV, NoneV, LoadResult(file), "none", LoadLog(file))
    /\ UNCHANGED <<stock, file>>

---------------------------------------------------------------------------
(* save_data *)

\* a save that opens the file for appending
Written_Append(old, d) == old \o json_dumps(d)

\* the text on disk after a complete write: mode "w" drops the old text
Written(old, d) == json_dumps(d)

\* open(file, "w") succeeded and json.dump wrote the whole text
SaveOk ==
    /\ file.kind # "denied"
    /\ file' = Text(Written(file.text, stock))
    /\ last' = Call("save_data", NoneV, NoneV, NoneV, NoneV, "none", "info")

\* open(file, "w") raised an OSError: nothing is written, the handler logs
SaveOpenFails ==
    /\ file' = file
    /\ last' = Call("save_data", NoneV, NoneV, NoneV, NoneV, "none", "error")

\* the file was truncated by open and the write failed part way
SaveWriteFails ==
    /\ file.kind # "denied"
    /\ \E n \in 0..MaxPartial :
          /\ n < Len(json_dumps(stock))
          /\ file' = Text(SubSeq(json_dumps(stock), 1, n))
    /\ last' = Call("save_data", NoneV, NoneV, NoneV, NoneV, "none", "error")

save_data ==
    /\ SaveOk \/ SaveOpenFails \/ SaveWriteFails
    /\ UNCHANGED stock

---------------------------------------------------------------------------
(* The caller: it owns the mapping, which starts empty, and may make any  *)
(* call at any time                                                        *)

Init ==
    /\ stock = <<>>
    /\ file \in InitFiles
    /\ last = Call("none", NoneV, NoneV, NoneV, NoneV, "none", "none")

\* calls on the mapping alone, with every kind of argument
StoreStep ==
    \/ \E item \in Items, qty \in Qtys : add_item(item, qty)
    \/ \E item \in Items, qty \in Qtys : remove_item(item, qty)
    \/ \E item \in Items : get_qty(item)
    \/ \E threshold \in Thresholds : check_low_items(threshold)

\* the arguments that pass validation and build every mapping of the model
GoodItems == {item \in Items : ValidItem(item)}

UnitQtys == {IntV(-1), IntV(1)}

\* persistence, over the mappings valid calls build
FileStep ==
    \/ \E item \in GoodItems, qty \in UnitQtys : add_item(item, qty)
    \/ \E item \in GoodItems, qty \in UnitQtys : remove_item(item, qty)
    \/ load_data
    \/ save_data

\* add_item is only ever given a quantity above zero, or one it rejects
PosQtys == {qty \in Qtys : IsInt(qty) => qty.v > 0}

PosAddStep ==
    \/ \E item \in Items, qty \in PosQtys : add_item(item, qty)
    \/ \E item \in Items, qty \in Qtys : remove_item(item, qty)
    \/ \E item \in Items : get_qty(item)
    \/ \E threshold \in Thresholds : check_low_items(threshold)

Next ==
    \/ StoreStep
    \/ load_data
    \/ save_data

\* every call, every argument
Spec == Init /\ [][Next]_vars

\* the mutators and queries
SpecStore == Init /\ [][StoreStep]_vars

\* load_data and save_data
SpecFile == Init /\ [][FileStep]_vars

\* the mutators and queries when no add_item call has qty <= 0
SpecPosAdd == Init /\ [][PosAddStep]_vars

---------------------------------------------------------------------------
(* The properties *)

\* a non-empty text value
NonEmptyText(x) == x.t = "str" /\ Len(x.v) > 0

\* an integer (Python counts bool among the integers)
Integer(x) == x.t \in {"int", "bool"}

\* the latest call is add_item or remove_item with arguments that pass validation
ValidCall(c, op) == c.op = op /\ NonEmptyText(c.item) /\ Integer(c.qty)

EmptyDict(r) == r.t = "dict" /\ Len(r.v) = 0

\* C1: after add_item(stock, item, qty) with a non-empty string item and an
\* integer qty > 0, get_qty(stock, item) is what it was before the call (0 for
\* an absent item) plus qty.
C1_AddThenGet ==
    [][ (ValidCall(last', "add_item") /\ last'.qty.v > 0)
           => GetQty(stock', last'.item) = GetQty(stock, last'.item) + last'.qty.v ]_vars

\* add_item has just raised an item that was already in stock
C1_Witness ==
    /\ ValidCall(last, "add_item")
    /\ last.qty.v > 0
    /\ GetQty(stock, last.item) > last.qty.v

\* C2: remove_item on an item present with quantity p leaves it absent when
\* p - qty <= 0 and present with exactly p - qty otherwise; it never leaves the
\* item stored with a quantity of 0 or below.
C2_RemovePresent ==
    [][ (ValidCall(last', "remove_item") /\ Has(stock, last'.item.v))
           => LET k == last'.item.v
                  p == DictGet(stock, k, 0)
                  q == last'.qty.v
              IN  /\ p - q <= 0 => ~Has(stock', k)
                  /\ p - q > 0 => Has(stock', k) /\ DictGet(stock', k, 0) = p - q
                  /\ Has(stock', k) => DictGet(stock', k, 0) > 0 ]_vars

\* remove_item has just taken a positive quantity off an item and left some
C2_Witness ==
    /\ ValidCall(last, "remove_item")
    /\ last.log = "info"
    /\ last.qty.v > 0
    /\ Has(stock, last.item.v)

\* C3: remove_item with a valid name that is not a key leaves the mapping as it
\* was (no entry is created) and does not raise, every time it is called.
C3_RemoveAbsent ==
    [][ (ValidCall(last', "remove_item") /\ ~Has(stock, last'.item.v))
           => stock' = stock /\ last'.raised = "none" ]_vars

\* remove_item was just called for an item missing from a mapping that holds
\* another item
C3_Witness ==
    /\ ValidCall(last, "remove_item")
    /\ last.log = "warning"
    /\ Len(stock) > 0
    /\ ~Has(stock, last.item.v)

\* C4: add_item and remove_item leave the mapping unchanged and do not raise
\* when item is not a non-empty text value or qty is not an integer; the
\* mapping changes only when item is a non-empty string and qty an integer.
C4_InvalidIsNoOp ==
    [][ /\ (last'.op \in {"add_item", "remove_item"}
              /\ ~(NonEmptyText(last'.item) /\ Integer(last'.qty)))
           => stock' = stock /\ last'.raised = "none"
        /\ stock' # stock => NonEmptyText(last'.item) /\ Integer(last'.qty) ]_vars

\* remove_item was just refused for an item in stock because qty is no integer
C4_Witness ==
    /\ last.op = "remove_item"
    /\ last.log = "error"
    /\ NonEmptyText(last.item)
    /\ ~Integer(last.qty)
    /\ Has(stock, last.item.v)

\* what check_low_items must return for mapping d: the keys below the
\* threshold, each once, in the order of d
LowSpec(d, threshold, r) ==
    /\ \A i \in 1..Len(r) : Has(d, r[i]) /\ DictGet(d, r[i], 0) < threshold
    /\ \A k \in KeySet(d) : DictGet(d, k, 0) < threshold => \E i \in 1..Len(r) : r[i] = k
    /\ \A i, j \in 1..Len(r) : i < j => r[i] # r[j] /\ IndexOf(d, r[i]) < IndexOf(d, r[j])
    /\ Len(d) = 0 => Len(r) = 0

\* C5: check_low_items returns exactly the items whose quantity is strictly
\* below the threshold, each once, in the mapping's order, and leaves the
\* mapping alone; for an empty mapping it returns an empty sequence.
C5_LowItems ==
    [][ last'.op = "check_low_items"
           => stock' = stock /\ LowSpec(stock, last'.threshold, last'.ret) ]_vars

\* check_low_items has just reported the second of two items and left out the
\* first, whose quantity equals the threshold
C5_Witness ==
    /\ last.op = "check_low_items"
    /\ Len(stock) = 2
    /\ stock[1].v = last.threshold
    /\ last.ret = <<stock[2].k>>

\* r is a dict with the keys of d, each with d's quantity as an int
SameMapping(r, d) ==
    /\ r.t = "dict"
    /\ Len(r.v) = Len(d)
    /\ KeySet(r.v) = KeySet(d)
    /\ \A i \in 1..Len(r.v) : r.v[i].v.t = "int" /\ r.v[i].v.v = DictGet(d, r.v[i].k, 0)

\* C6: load_data right after a save_data that completed returns a mapping
\* equal to the one saved, whatever the file held before.
C6_RoundTrip ==
    [][ (last.op = "save_data" /\ last.log = "info" /\ last'.op = "load_data")
           => last'.raised = "none" /\ SameMapping(last'.ret, stock) ]_vars

\* load_data has just returned the two saved items, one of them negative
C6_Witness ==
    /\ last.op = "load_data"
    /\ last.raised = "none"
    /\ Len(stock) = 2
    /\ \E i \in 1..2 : stock[i].v < 0
    /\ SameMapping(last.ret, stock)

C8_LoadNeverRaises == last.op = "load_data" => last.raised = "none"

\* C9: after any sequence of add_item and remove_item calls from the empty
\* mapping every key present has a quantity above zero.
C9_AllPositive == \A i \in 1..Len(stock) : stock[i].v > 0

\* C10: when every add_item call has an integer qty > 0 (remove_item may take
\* any integer), every key present has a quantity above zero in every state.
C10_PositiveUnderPositiveAdds == \A k \in KeySet(stock) : DictGet(stock, k, 0) > 0

\* remove_item has just deleted an item whose quantity dropped to 0 or below,
\* and another item is still in stock
C10_Witness ==
    /\ ValidCall(last, "remove_item")
    /\ last.log = "info"
    /\ ~Has(stock, last.item.v)
    /\ Len(stock) = 1

\* C10, second half, for every call: a key that was absent or above zero is
\* stored at zero or below only by an add_item call on it with qty <= 0.
C10_OnlyNonPositiveAdd ==
    [][ \A k \in KeySet(stock') :
           (DictGet(stock', k, 0) <= 0 /\ (Has(stock, k) => DictGet(stock, k, 0) > 0))
              => /\ ValidCall(last', "add_item")
                 /\ last'.item.v = k
                 /\ last'.qty.v <= 0 ]_vars

====
